---- MODULE Spec2Model ----
(***************************************************************************)
(* Stratum V2 -> V1 translation proxy (stratum-proxy/src/server.rs and     *)
(* protocols/stratum/src/v2/messages.rs).                                  *)
(*                                                                         *)
(* Two state machines are modelled:                                        *)
(*   Spec        one translation session, ConnTranslation::run with its    *)
(*               two detached send subtasks and the two bounded queues     *)
(*               between the translator and the subtasks;                  *)
(*   ServerSpec  the listener, ProxyServer::next/run/accept, with the quit *)
(*               channel and the session tasks it spawns                   *)
(*               (ProxyConnection::handle/do_handle).                      *)
(* FairSpec adds the fairness the executor gives to the program's own      *)
(* tasks; the peers stay unconstrained.                                    *)
(***************************************************************************)
EXTENDS Integers, Sequences, FiniteSets, TLC

VARIABLES
    \* ---- one translation session (ConnTranslation) ----
    pc,             \* main loop of run: select / v1_arm / v2_arm / handle_v1 / handle_v2 / done
    result,         \* the Err that run returned with, "none" while it is running
    elapsed,        \* seconds since the two read deadlines of this iteration were created
    translation,    \* state of V2ToV1Translation
    pending,        \* frames the running handle_v1/handle_v2 still has to enqueue
    herr,           \* whether the running handler returns Err once it has enqueued them
    got,            \* what the select! arm taken last received from its read half
    v1_q,           \* v1_translation_tx -> v1_translation_rx
    v2_q,           \* v2_translation_tx -> v2_translation_rx
    v1_task,        \* V1 send subtask: recv / send / blocked / done / failed
    v2_task,        \* V2 send subtask: recv / send / blocked / done / failed
    v1_cur,         \* frame the V1 send subtask is writing
    v2_cur,         \* frame the V2 send subtask is writing
    v1_out,         \* frames written to the V1 socket
    v2_out,         \* frames written to the V2 socket
    v1_enq,         \* history: frames the translator enqueued on the V1 queue
    v2_enq,         \* history: frames the translator enqueued on the V2 queue
    v1_answered,    \* number of the requests written to the V1 socket the server has answered
    \* ---- the listener (ProxyServer) ----
    cfg,            \* what listen was given: proxy_config and whether a key pair
    srv_pc,         \* run: "next" while looping, "terminated" after the loop
    srv_exit,       \* why next returned None: none / quit / socket_closed
    quit_rx,        \* TRUE while self.quit_rx is Some
    quit_q,         \* number of quit notifications in the quit channel
    incoming,       \* connection results the listening socket has ready, oldest first
    sock_closed,    \* the stream of incoming connections has ended
    sessions,       \* spawned session tasks (ProxyConnection::handle), in spawn order
    results         \* what next has returned inside Some(..), in order

sessVars == <<pc, result, elapsed, translation, pending, herr, got, v1_q, v2_q,
              v1_task, v2_task, v1_cur, v2_cur, v1_out, v2_out, v1_enq, v2_enq,
              v1_answered>>

srvVars == <<cfg, srv_pc, srv_exit, quit_rx, quit_q, incoming, sock_closed, sessions,
             results>>

vars == <<sessVars, srvVars>>


(***************************************************************************)
(* Bounds of the model                                                     *)
(***************************************************************************)
\* frames the translator enqueues for the V1 server during one session
MaxV1Enq == 2
\* frames the translator enqueues for the V2 client during one session
MaxV2Enq == 14
\* granularity of the session clock, in seconds
TickSecs == 60
\* connections made to the listening socket
MaxConns == 2
\* quit notifications sent on the quit channel
MaxQuits == 1
\* messages converted to frames in one behaviour of MessagesSpec
MaxConv == 2
\* channels opened, jobs announced and shares submitted in one behaviour of
\* TranslatorSpec
MaxChannels == 2
MaxJobs == 2
MaxSubmits == 3
\* frames the translator sends in one behaviour of TranslatorSpec
MaxTranslated == 11

(***************************************************************************)
(* Program constants                                                       *)
(***************************************************************************)
MAX_TRANSLATION_CHANNEL_SIZE == 10
V1_UPSTREAM_TIMEOUT == 60
V2_DOWNSTREAM_TIMEOUT == 60
\* Sender handles per outbound channel: ConnTranslation::new hands the one
\* Sender of each channel to the translator.
NumSenders == 1
\* v2::extensions::BASE
BASE == 0
\* an extension the proxy does not implement
OTHER_EXT == 1

(***************************************************************************)
(* V2 message catalog (messages.rs)                                        *)
(***************************************************************************)
\* the messages of the base extension that have a conversion to a frame
Catalog ==
    {"SetupConnection", "SetupConnectionSuccess", "SetupConnectionError",
     "ChannelEndpointChanged", "OpenStandardMiningChannel",
     "OpenStandardMiningChannelSuccess", "OpenMiningChannelError",
     "UpdateChannel", "UpdateChannelError", "CloseChannel", "SubmitSharesStandard",
     "SubmitSharesSuccess", "SubmitSharesError", "NewMiningJob",
     "NewExtendedMiningJob", "SetNewPrevHash", "Reconnect", "SetTarget"}

\* (mutant) Reconnect is converted as a channel message
IsChannelMsg_ReconnectSet(msg) ==
    msg \in {"UpdateChannel", "UpdateChannelError", "CloseChannel", "SubmitSharesStandard",
             "SubmitSharesSuccess", "SubmitSharesError", "NewMiningJob",
             "NewExtendedMiningJob", "SetNewPrevHash", "Reconnect", "SetTarget"}

\* impl_base_message_conversion!(<message>, <is_channel_msg>)
IsChannelMsg(msg) ==
    msg \in {"UpdateChannel", "UpdateChannelError", "CloseChannel", "SubmitSharesStandard",
             "SubmitSharesSuccess", "SubmitSharesError", "NewMiningJob",
             "NewExtendedMiningJob", "SetNewPrevHash", "SetTarget"}

\* A base-extension frame built from a message
V2Frame(msg, req_id, channel_id) ==
    [ext |-> BASE, is_channel_msg |-> IsChannelMsg(msg), msg |-> msg,
     req_id |-> req_id, channel_id |-> channel_id]

\* the bit of the extension field of the frame header that marks a channel message
CHANNEL_MSG_MASK == 32768

\* the extension field of the header as it is written: the extension with the
\* channel flag in its high bit
serialize_extension(ext, is_channel_msg) ==
    (ext + (IF is_channel_msg THEN CHANNEL_MSG_MASK ELSE 0)) % (2 * CHANNEL_MSG_MASK)

\* (mutant) the extension of the header keeps the channel flag
deserialize_header_KeepsFlag(field) ==
    [extension_type |-> field, is_channel_msg |-> (field \div CHANNEL_MSG_MASK) % 2 = 1]

\* the header as it is read: the channel flag is taken off the extension
deserialize_header(field) ==
    [extension_type |-> field % CHANNEL_MSG_MASK,
     is_channel_msg |-> (field \div CHANNEL_MSG_MASK) % 2 = 1]

\* a frame as the V2 codec yields it after the peer has written it
FromWire(f) ==
    LET header == deserialize_header(serialize_extension(f.ext, f.is_channel_msg))
    IN [f EXCEPT !.ext = header.extension_type, !.is_channel_msg = header.is_channel_msg]

\* A frame of an extension other than the base one
ExtFrame ==
    [ext |-> OTHER_EXT, is_channel_msg |-> FALSE, msg |-> "Unknown",
     req_id |-> 0, channel_id |-> 0]

\* SetupConnectionSuccess { used_version, flags }
SetupConnectionSuccess(used_version) ==
    V2Frame("SetupConnectionSuccess", 0, 0) @@ [used_version |-> used_version]

\* SubmitSharesStandard { channel_id, seq_num, job_id, .. }
SubmitSharesStandard(channel_id, seq_num, job_id) ==
    V2Frame("SubmitSharesStandard", 0, channel_id) @@ [seq_num |-> seq_num, job_id |-> job_id]

\* SubmitSharesSuccess { channel_id, last_seq_num, new_submits_accepted_count, .. }
SubmitSharesSuccess(channel_id, last_seq_num, new_submits_accepted_count) ==
    V2Frame("SubmitSharesSuccess", 0, channel_id)
        @@ [last_seq_num |-> last_seq_num,
            new_submits_accepted_count |-> new_submits_accepted_count]

\* SubmitSharesError { channel_id, seq_num, code }
SubmitSharesError(channel_id, seq_num, code) ==
    V2Frame("SubmitSharesError", 0, channel_id) @@ [seq_num |-> seq_num, code |-> code]

\* NewExtendedMiningJob { channel_id, job_id, future_job, .. }
NewExtendedMiningJob(channel_id, job_id, future_job) ==
    V2Frame("NewExtendedMiningJob", 0, channel_id)
        @@ [job_id |-> job_id, future_job |-> future_job]

\* SetNewPrevHash { channel_id, job_id, prev_hash, .. }
SetNewPrevHash(channel_id, job_id, prev_hash) ==
    V2Frame("SetNewPrevHash", 0, channel_id) @@ [job_id |-> job_id, prev_hash |-> prev_hash]

\* A V1 request the translator sends upstream
V1Request(method) == [method |-> method]

\* mining.submit with its request id, for the share of a V2 job
V1Submit(id, job_id) == [method |-> "mining.submit", id |-> id, job_id |-> job_id]

\* A V1 frame received from the upstream server; rpc |-> FALSE is a frame
\* that v1::rpc::Rpc::try_from rejects
V1Response(kind, ok) == [kind |-> kind, ok |-> ok, rpc |-> TRUE]
V1Malformed == [kind |-> "malformed", ok |-> FALSE, rpc |-> FALSE]

\* mining.notify(.., prev_hash, .., clean_jobs)
V1Notify(prev_hash, clean_jobs) ==
    [kind |-> "notify", ok |-> TRUE, rpc |-> TRUE,
     prev_hash |-> prev_hash, clean_jobs |-> clean_jobs]

\* the response to the mining.submit with request id `id`
V1SubmitResult(id, ok) == [kind |-> "submit_result", ok |-> ok, rpc |-> TRUE, id |-> id]

\* What a read half with a deadline yields: Ok(Some(Ok(frame))),
\* Ok(Some(Err(..))), Ok(None), or Err(Elapsed)
NoItem == [t |-> "none"]
ItemFrame(f) == [t |-> "frame", f |-> f]
ItemErr == [t |-> "err"]
ItemEof == [t |-> "eof"]
ItemElapsed == [t |-> "elapsed"]

\* an entry of the handler's to-do list: frame f goes to queue q ("v1" or "v2")
Out(q, f) == [q |-> q, f |-> f]

(***************************************************************************)
(* V2ToV1Translation                                                       *)
(***************************************************************************)
\* jobs: the job table, one entry [channel_id, job_id, status] per channel and
\* job, status "future", "active" or "invalid"; submits: the pending-submit
\* table in the order the shares were forwarded, one entry
\* [id, channel_id, seq_num, accepted] per mining.submit not yet acknowledged
TranslationNew ==
    [state |-> "AwaitSetup", channels |-> {}, opens |-> <<>>, next_channel_id |-> 1,
     prev_hash |-> 0, jobs |-> {}, next_job_id |-> 1,
     submits |-> <<>>, next_submit_id |-> 1]

HandlerResult(t, out, err) == [t |-> t, out |-> out, err |-> err]

\* one SetTarget per open channel, in channel order
RECURSIVE SetTargets(_)
SetTargets(chs) ==
    IF chs = {} THEN <<>>
    ELSE LET c == CHOOSE x \in chs : \A y \in chs : x <= y
         IN <<Out("v2", V2Frame("SetTarget", 0, c))>> \o SetTargets(chs \ {c})

\* (mutant) SetupConnectionSuccess is sent at once, before the V1 server answers
visit_setup_connection_EarlySuccess(t) ==
    HandlerResult([t EXCEPT !.state = "Operational"],
                  <<Out("v1", V1Request("mining.subscribe")),
                    Out("v2", SetupConnectionSuccess(2))>>, FALSE)

\* SetupConnection: mining.subscribe goes upstream, the answer to the client waits
visit_setup_connection(t) ==
    HandlerResult([t EXCEPT !.state = "AwaitV1Subscribe"],
                  <<Out("v1", V1Request("mining.subscribe"))>>, FALSE)

\* the result of mining.subscribe: SetupConnectionSuccess with used_version = 2
visit_subscribe_result(t) ==
    HandlerResult([t EXCEPT !.state = "Operational"],
                  <<Out("v2", SetupConnectionSuccess(2))>>, FALSE)

\* the status of a job of a channel in the job table
JobStatus(t, channel_id, job_id) ==
    IF \E e \in t.jobs : e.channel_id = channel_id /\ e.job_id = job_id
    THEN (CHOOSE e \in t.jobs : e.channel_id = channel_id /\ e.job_id = job_id).status
    ELSE "unknown"

\* what mining.notify becomes on each open channel, in channel order:
\* NewExtendedMiningJob with future_job = !clean_jobs, then SetNewPrevHash
\* when the jobs are cleaned or the previous hash has changed
RECURSIVE JobFrames(_, _, _, _, _)
JobFrames(chs, job_id, clean_jobs, new_prev, prev_hash) ==
    IF chs = {} THEN <<>>
    ELSE LET c == CHOOSE x \in chs : \A y \in chs : x <= y
         IN <<Out("v2", NewExtendedMiningJob(c, job_id, ~clean_jobs))>>
            \o (IF new_prev THEN <<Out("v2", SetNewPrevHash(c, job_id, prev_hash))>>
                ELSE <<>>)
            \o JobFrames(chs \ {c}, job_id, clean_jobs, new_prev, prev_hash)

\* mining.notify: a fresh V2 job id; clean_jobs invalidates every prior job;
\* the job named by SetNewPrevHash becomes the one active job of the channel
\* and the jobs active before it are invalidated; a job announced without
\* SetNewPrevHash is a future job
visit_notify(t, r) ==
    LET job_id == t.next_job_id
        new_prev == r.clean_jobs \/ r.prev_hash # t.prev_hash
        prior == {[e EXCEPT !.status = IF r.clean_jobs \/ (new_prev /\ @ = "active")
                                       THEN "invalid" ELSE @] : e \in t.jobs}
        fresh == {[channel_id |-> c, job_id |-> job_id,
                   status |-> IF new_prev THEN "active" ELSE "future"] : c \in t.channels}
    IN HandlerResult([t EXCEPT !.jobs = prior \cup fresh, !.next_job_id = job_id + 1,
                               !.prev_hash = r.prev_hash],
                     JobFrames(t.channels, job_id, r.clean_jobs, new_prev, r.prev_hash), FALSE)

\* the share is forwarded as mining.submit and kept in the pending-submit table
ForwardShare(t, f) ==
    HandlerResult([t EXCEPT !.submits = Append(@, [id |-> t.next_submit_id,
                                                   channel_id |-> f.channel_id,
                                                   seq_num |-> f.seq_num,
                                                   accepted |-> FALSE]),
                            !.next_submit_id = @ + 1],
                  <<Out("v1", V1Submit(t.next_submit_id, f.job_id))>>, FALSE)

\* the share is refused without going upstream
RefuseShare(t, f, code) ==
    HandlerResult(t, <<Out("v2", SubmitSharesError(f.channel_id, f.seq_num, code))>>, FALSE)

\* (mutant) every job of the job table that is not invalidated takes shares
visit_submit_shares_AnyKnownJob(t, f) ==
    IF f.channel_id \notin t.channels THEN RefuseShare(t, f, "invalid-channel-id")
    ELSE IF JobStatus(t, f.channel_id, f.job_id) \in {"active", "future"}
         THEN ForwardShare(t, f)
         ELSE RefuseShare(t, f, "stale-share")

\* SubmitSharesStandard: only a share for an active job goes upstream; a share
\* for a job that is unknown, invalidated or not activated is a stale share
visit_submit_shares(t, f) ==
    IF f.channel_id \notin t.channels THEN RefuseShare(t, f, "invalid-channel-id")
    ELSE IF JobStatus(t, f.channel_id, f.job_id) = "active"
         THEN ForwardShare(t, f)
         ELSE RefuseShare(t, f, "stale-share")

\* number of accepted entries at the head of the pending-submit table
RECURSIVE AcceptedPrefix(_)
AcceptedPrefix(submits) ==
    IF submits = <<>> \/ ~Head(submits).accepted THEN 0
    ELSE 1 + AcceptedPrefix(Tail(submits))

\* number of entries at the head of a run that are of the channel of its first
RECURSIVE SameChannelPrefix(_, _)
SameChannelPrefix(run, channel_id) ==
    IF run = <<>> \/ Head(run).channel_id # channel_id THEN 0
    ELSE 1 + SameChannelPrefix(Tail(run), channel_id)

\* one SubmitSharesSuccess for each run of accepted shares of one channel
RECURSIVE AckRuns(_)
AckRuns(run) ==
    IF run = <<>> THEN <<>>
    ELSE LET k == SameChannelPrefix(run, Head(run).channel_id)
         IN <<Out("v2", SubmitSharesSuccess(Head(run).channel_id, run[k].seq_num, k))>>
            \o AckRuns(SubSeq(run, k + 1, Len(run)))

\* the accepted shares at the head of the pending-submit table are
\* acknowledged and leave the table
Flush(t, submits, out) ==
    LET n == AcceptedPrefix(submits)
    IN HandlerResult([t EXCEPT !.submits = SubSeq(submits, n + 1, Len(submits))],
                     out \o AckRuns(SubSeq(submits, 1, n)), FALSE)

\* the pending-submit table without the entry of request id `id`
Resolved(submits, id) == SelectSeq(submits, LAMBDA e : e.id # id)

\* (mutant) every accepted share is acknowledged the moment its response arrives
visit_submit_result_EachAtOnce(t, r) ==
    LET e == CHOOSE x \in {t.submits[k] : k \in DOMAIN t.submits} : x.id = r.id
    IN IF r.ok
       THEN HandlerResult([t EXCEPT !.submits = Resolved(t.submits, r.id)],
                          <<Out("v2", SubmitSharesSuccess(e.channel_id, e.seq_num, 1))>>, FALSE)
       ELSE HandlerResult([t EXCEPT !.submits = Resolved(t.submits, r.id)],
                          <<Out("v2", SubmitSharesError(e.channel_id, e.seq_num, "rejected"))>>,
                          FALSE)

\* the response to a mining.submit: an error is reported at once; an accepted
\* share is acknowledged once every share forwarded before it is resolved
visit_submit_result(t, r) ==
    LET e == CHOOSE x \in {t.submits[k] : k \in DOMAIN t.submits} : x.id = r.id
    IN IF r.ok
       THEN Flush(t, [k \in DOMAIN t.submits |->
                         IF t.submits[k].id = r.id
                         THEN [t.submits[k] EXCEPT !.accepted = TRUE] ELSE t.submits[k]],
                  <<>>)
       ELSE Flush(t, Resolved(t.submits, r.id),
                  <<Out("v2", SubmitSharesError(e.channel_id, e.seq_num, "rejected"))>>)

\* the mining.submit with request id `id` is waiting for its response
AwaitsResult(t, id) ==
    \E k \in DOMAIN t.submits : t.submits[k].id = id /\ ~t.submits[k].accepted

\* the reply to the channel request req_id: the channel is opened when the
\* authorization was accepted, refused otherwise
OpenReply(t, req_id, rest, ok) ==
    IF ok
    THEN HandlerResult([t EXCEPT !.opens = rest,
                                 !.channels = @ \cup {t.next_channel_id},
                                 !.next_channel_id = @ + 1],
                       <<Out("v2", V2Frame("OpenStandardMiningChannelSuccess",
                                           req_id, t.next_channel_id))>>, FALSE)
    ELSE HandlerResult([t EXCEPT !.opens = rest],
                       <<Out("v2", V2Frame("OpenMiningChannelError", req_id, 0))>>, FALSE)

\* (mutant) the request that arrived last is answered first
visit_authorize_result_NewestFirst(t, r) ==
    OpenReply(t, t.opens[Len(t.opens)], SubSeq(t.opens, 1, Len(t.opens) - 1), r.ok)

\* the result of mining.authorize answers the oldest queued channel request
visit_authorize_result(t, r) ==
    OpenReply(t, Head(t.opens), Tail(t.opens), r.ok)

\* V2ToV1Translation::handle_v2
handle_v2(t, f) ==
    CASE f.msg = "SetupConnection" /\ t.state = "AwaitSetup" ->
            visit_setup_connection(t)
      [] f.msg = "OpenStandardMiningChannel" /\ t.state = "Operational" ->
            HandlerResult([t EXCEPT !.opens = Append(@, f.req_id)],
                          <<Out("v1", V1Request("mining.authorize"))>>, FALSE)
      [] f.msg = "SubmitSharesStandard" /\ t.state = "Operational" ->
            visit_submit_shares(t, f)
      [] OTHER -> HandlerResult(t, <<>>, TRUE)

\* V2ToV1Translation::handle_v1
handle_v1(t, r) ==
    CASE r.kind = "subscribe_result" /\ t.state = "AwaitV1Subscribe" ->
            visit_subscribe_result(t)
      [] r.kind = "authorize_result" /\ t.opens # <<>> ->
            visit_authorize_result(t, r)
      [] r.kind = "set_difficulty" ->
            HandlerResult(t, SetTargets(t.channels), FALSE)
      [] r.kind = "notify" ->
            visit_notify(t, r)
      [] r.kind = "submit_result" /\ AwaitsResult(t, r.id) ->
            visit_submit_result(t, r)
      [] OTHER -> HandlerResult(t, <<>>, TRUE)

(***************************************************************************)
(* futures::channel::mpsc::channel(buffer), as ConnTranslation::new        *)
(* creates it: a sender may push while it is not parked, and it is parked  *)
(* by the push that takes the number of queued messages above buffer, so   *)
(* the queue holds up to buffer + (number of senders) messages.            *)
(***************************************************************************)
ChannelCapacity == MAX_TRANSLATION_CHANNEL_SIZE + NumSenders

CanSend(q) == Len(q) < ChannelCapacity

\* the receiver of a queue is dropped when its send subtask has ended
ReceiverGone(task) == task \in {"done", "failed"}

\* the senders are dropped with the translator when run returns
SendersGone == pc = "done"


(***************************************************************************)
(* The session: initial state (ConnTranslation::new, start of run)         *)
(***************************************************************************)
SessInit ==
    /\ pc = "select"
    /\ result = "none"
    /\ elapsed = 0
    /\ translation = TranslationNew
    /\ pending = <<>>
    /\ herr = FALSE
    /\ got = NoItem
    /\ v1_q = <<>>
    /\ v2_q = <<>>
    /\ v1_task = "recv"
    /\ v2_task = "recv"
    /\ v1_cur = NoItem
    /\ v2_cur = NoItem
    /\ v1_out = <<>>
    /\ v2_out = <<>>
    /\ v1_enq = <<>>
    /\ v2_enq = <<>>
    /\ v1_answered = 0

(***************************************************************************)
(* The peers                                                               *)
(***************************************************************************)
\* The V1 server answers the requests it has received, oldest first
V1ServerAnswers ==
    IF v1_answered >= Len(v1_out) THEN {}
    ELSE IF v1_out[v1_answered + 1].method = "mining.subscribe"
         THEN {V1Response("subscribe_result", TRUE)}
         ELSE {V1Response("authorize_result", TRUE), V1Response("authorize_result", FALSE)}

\* ... and sends notifications, or a frame that is no RPC message, at any time
V1ServerNotifies == {V1Response("set_difficulty", TRUE), V1Malformed}

\* number of OpenStandardMiningChannel requests the translator has taken
OpensTaken ==
    Cardinality({i \in 1..Len(v1_enq) : v1_enq[i].method = "mining.authorize"})

\* Frames of the base extension the V2 client may send next: SetupConnection
\* first, requests once it has received SetupConnectionSuccess (it numbers them
\* 7, 8, ...), and a message the translator does not expect at any time
V2ClientFrames ==
    (IF v1_enq = <<>> THEN {V2Frame("SetupConnection", 0, 0)} ELSE {})
    \cup (IF v2_out # <<>>
          THEN {V2Frame("OpenStandardMiningChannel", 7 + OpensTaken, 0)} ELSE {})
    \cup {V2Frame("UpdateChannel", 0, 1)}

\* The peers send frames the translator answers only while the histories of
\* the session are within the bounds of the model
V1WithinBounds == Len(v2_enq) < MaxV2Enq
V2WithinBounds == Len(v1_enq) < MaxV1Enq

\* (mutant) the deadlines also cover the handler the arm awaits
DeadlinesRunning_InHandlerToo == pc \in {"select", "handle_v1", "handle_v2"}

\* The deadlines wrap the two reads only (next().timeout(..)): they run while
\* the loop waits in select!, not while the arm taken awaits its handler
DeadlinesRunning == pc = "select"

\* Time passes while the main loop waits in select! with neither side ready
Tick ==
    /\ DeadlinesRunning
    /\ elapsed < V1_UPSTREAM_TIMEOUT \/ elapsed < V2_DOWNSTREAM_TIMEOUT
    /\ elapsed' = elapsed + TickSecs
    /\ UNCHANGED <<pc, result, translation, pending, herr, got, v1_q, v2_q,
                   v1_task, v2_task, v1_cur, v2_cur, v1_out, v2_out, v1_enq, v2_enq, v1_answered>>
    /\ UNCHANGED srvVars

(***************************************************************************)
(* ConnTranslation::run, the main loop                                     *)
(***************************************************************************)
\* `?` in run: run returns Err(err); the translator and the read halves are dropped
RunReturn(err) ==
    /\ pc' = "done"
    /\ result' = err
    /\ pending' = <<>>
    /\ herr' = FALSE
    /\ UNCHANGED <<elapsed, translation, got>>

\* a handler of the translator is started on one frame
StartHandler(branch, r) ==
    /\ pc' = branch
    /\ translation' = r.t
    /\ pending' = r.out
    /\ herr' = r.err
    /\ UNCHANGED <<result, elapsed, got>>

\* (mutant) the deadlines are created once, before the loop, and keep running
NextIteration_KeepsDeadlines ==
    /\ pc' = "select"
    /\ pending' = <<>>
    /\ herr' = FALSE
    /\ UNCHANGED <<result, elapsed, translation, got>>

\* the select! arm is over with Ok: the loop starts its next iteration, which
\* creates both read futures and both deadlines anew
NextIteration ==
    /\ pc' = "select"
    /\ elapsed' = 0
    /\ pending' = <<>>
    /\ herr' = FALSE
    /\ UNCHANGED <<result, translation, got>>

\* (mutant) the handler is not awaited: the loop polls again while it runs
AtSelect_HandlerNotAwaited == pc \in {"select", "handle_v1", "handle_v2"}

\* The loop polls its two read halves only between iterations: the arm taken
\* awaits its handler before the loop comes round to select! again
AtSelect == pc = "select"

\* select! takes the arm of v1_conn_rx.next().timeout(V1_UPSTREAM_TIMEOUT):
\* the read half yielded a frame, an error or its end, or the deadline elapsed
RunSelectV1 ==
    /\ AtSelect
    /\ \/ /\ elapsed >= V1_UPSTREAM_TIMEOUT
          /\ got' = ItemElapsed
          /\ UNCHANGED v1_answered
       \/ /\ V1WithinBounds
          /\ \/ /\ \E f \in V1ServerAnswers : got' = ItemFrame(f)
                /\ v1_answered' = v1_answered + 1
             \/ /\ \E f \in V1ServerNotifies : got' = ItemFrame(f)
                /\ UNCHANGED v1_answered
       \/ /\ got' \in {ItemErr, ItemEof}
          /\ UNCHANGED v1_answered
    /\ pc' = "v1_arm"
    /\ UNCHANGED <<result, elapsed, translation, pending, herr, v1_q, v2_q, v1_task,
                   v2_task, v1_cur, v2_cur, v1_out, v2_out, v1_enq, v2_enq>>
    /\ UNCHANGED srvVars

\* select! takes the arm of v2_conn_rx.next().timeout(V2_DOWNSTREAM_TIMEOUT)
RunSelectV2 ==
    /\ AtSelect
    /\ \/ /\ elapsed >= V2_DOWNSTREAM_TIMEOUT
          /\ got' = ItemElapsed
       \/ /\ V2WithinBounds
          /\ \E f \in V2ClientFrames : got' = ItemFrame(FromWire(f))
       \/ got' \in {ItemFrame(FromWire(ExtFrame)), ItemErr, ItemEof}
    /\ pc' = "v2_arm"
    /\ UNCHANGED <<result, elapsed, translation, pending, herr, v1_q, v2_q, v1_task,
                   v2_task, v1_cur, v2_cur, v1_out, v2_out, v1_enq, v2_enq, v1_answered>>
    /\ UNCHANGED srvVars

\* (mutant) a frame that is no RPC message is skipped and the loop goes on
v1_handle_frame_SkipsMalformed(frame) ==
    IF ~frame.rpc
    THEN NextIteration
    ELSE StartHandler("handle_v1", handle_v1(translation, frame))

\* ConnTranslation::v1_handle_frame
v1_handle_frame(frame) ==
    IF ~frame.rpc
    THEN RunReturn("V1RpcError")
    ELSE StartHandler("handle_v1", handle_v1(translation, frame))

\* (mutant) every frame goes to the translator, whatever its extension
v2_handle_frame_AnyExt(frame) ==
    StartHandler("handle_v2", handle_v2(translation, frame))

\* ConnTranslation::v2_handle_frame
v2_handle_frame(frame) ==
    IF frame.ext = BASE
    THEN StartHandler("handle_v2", handle_v2(translation, frame))
    ELSE NextIteration

\* (mutant) the elapsed V1 deadline is swallowed and the loop goes on
V1TimedOut_Ignored == NextIteration

\* `v1_frame?` on an elapsed V1 deadline
V1TimedOut == RunReturn("Timeout")

\* `v2_frame?` on an elapsed V2 deadline
V2TimedOut == RunReturn("Timeout")

\* the V1 read half has ended: Err("Upstream V1 stratum connection dropped")
V1Dropped == RunReturn("V1Dropped")

\* (mutant) the end of the V2 read half ends the loop with Ok(())
V2Disconnected_ReturnsOk == RunReturn("Ok")

\* the V2 read half has ended: Err("V2 client disconnected")
V2Disconnected == RunReturn("V2Disconnected")

\* body of the V1 arm: `match v1_frame? { Some(f) => v1_handle_frame(f?), None => Err }`
RunV1Arm ==
    /\ pc = "v1_arm"
    /\ CASE got.t = "elapsed" -> V1TimedOut
         [] got.t = "frame" -> v1_handle_frame(got.f)
         [] got.t = "err" -> RunReturn("V1ReadError")
         [] got.t = "eof" -> V1Dropped
    /\ UNCHANGED <<v1_q, v2_q, v1_task, v2_task, v1_cur, v2_cur, v1_out, v2_out,
                   v1_enq, v2_enq, v1_answered>>
    /\ UNCHANGED srvVars

\* body of the V2 arm: `match v2_frame? { Some(f) => v2_handle_frame(f?), None => Err }`
RunV2Arm ==
    /\ pc = "v2_arm"
    /\ CASE got.t = "elapsed" -> V2TimedOut
         [] got.t = "frame" -> v2_handle_frame(got.f)
         [] got.t = "err" -> RunReturn("V2DecodeError")
         [] got.t = "eof" -> V2Disconnected
    /\ UNCHANGED <<v1_q, v2_q, v1_task, v2_task, v1_cur, v2_cur, v1_out, v2_out,
                   v1_enq, v2_enq, v1_answered>>
    /\ UNCHANGED srvVars

InHandler == pc \in {"handle_v1", "handle_v2"}

\* The running handler sends its next frame into an outbound queue: the send
\* completes when the queue has room, fails when the receiver is gone, and
\* stays suspended otherwise
TranslatorSend ==
    /\ InHandler
    /\ pending # <<>>
    /\ LET o == Head(pending) IN
       \/ /\ o.q = "v1"
          /\ ~ReceiverGone(v1_task)
          /\ CanSend(v1_q)
          /\ v1_q' = Append(v1_q, o.f)
          /\ v1_enq' = Append(v1_enq, o.f)
          /\ pending' = Tail(pending)
          /\ UNCHANGED <<pc, result, herr, got, v2_q, v2_enq>>
       \/ /\ o.q = "v2"
          /\ ~ReceiverGone(v2_task)
          /\ CanSend(v2_q)
          /\ v2_q' = Append(v2_q, o.f)
          /\ v2_enq' = Append(v2_enq, o.f)
          /\ pending' = Tail(pending)
          /\ UNCHANGED <<pc, result, herr, got, v1_q, v1_enq>>
       \/ /\ ReceiverGone(IF o.q = "v1" THEN v1_task ELSE v2_task)
          /\ pc' = "done"
          /\ result' = "SendError"
          /\ pending' = <<>>
          /\ herr' = FALSE
          /\ UNCHANGED <<got, v1_q, v2_q, v1_enq, v2_enq>>
    /\ UNCHANGED <<elapsed, translation, v1_task, v2_task, v1_cur, v2_cur,
                   v1_out, v2_out, v1_answered>>
    /\ UNCHANGED srvVars

\* handle_v1(..).await? / handle_v2(..).await? is over
HandlerReturn ==
    /\ InHandler
    /\ pending = <<>>
    /\ IF herr THEN RunReturn("TranslationError") ELSE NextIteration
    /\ UNCHANGED <<v1_q, v2_q, v1_task, v2_task, v1_cur, v2_cur, v1_out,
                   v2_out, v1_enq, v2_enq, v1_answered>>
    /\ UNCHANGED srvVars

(***************************************************************************)
(* The send subtasks (tokio::spawn in run)                                 *)
(***************************************************************************)
\* (mutant) the newest frame is taken first
QueueTake_Newest(q) == [frame |-> q[Len(q)], rest |-> SubSeq(q, 1, Len(q) - 1)]

\* Receiver::next on a non-empty queue: the oldest frame and the rest
QueueTake(q) == [frame |-> Head(q), rest |-> Tail(q)]

\* (mutant) the receiver yields None as soon as the senders are gone
QueueEnded_OnClose(q) == SendersGone

\* Receiver::next yields None: the queue is closed and holds nothing
QueueEnded(q) == q = <<>> /\ SendersGone

\* v1_send_task: `while let Some(frame) = v1_translation_rx.next().await`
V1TaskRecv ==
    /\ v1_task = "recv"
    /\ \/ /\ v1_q # <<>>
          /\ v1_cur' = ItemFrame(QueueTake(v1_q).frame)
          /\ v1_q' = QueueTake(v1_q).rest
          /\ v1_task' = "send"
       \/ /\ QueueEnded(v1_q)
          /\ v1_task' = "done"
          /\ UNCHANGED <<v1_cur, v1_q>>
    /\ UNCHANGED <<pc, result, elapsed, translation, pending, herr, got, v2_q,
                   v2_task, v2_cur, v1_out, v2_out, v1_enq, v2_enq, v1_answered>>
    /\ UNCHANGED srvVars

\* v1_send_task: v1_conn_tx.send(frame).await returned Ok
V1TaskWrite ==
    /\ v1_task = "send"
    /\ v1_out' = Append(v1_out, v1_cur.f)
    /\ v1_cur' = NoItem
    /\ v1_task' = "recv"
    /\ UNCHANGED <<pc, result, elapsed, translation, pending, herr, got, v1_q,
                   v2_q, v2_task, v2_cur, v2_out, v1_enq, v2_enq, v1_answered>>
    /\ UNCHANGED srvVars

\* v1_send_task: v1_conn_tx.send(frame).await returned Err: warn! and break;
\* the receiver is dropped with whatever the queue still holds
V1TaskWriteFail ==
    /\ v1_task \in {"send", "blocked"}
    /\ v1_task' = "failed"
    /\ v1_cur' = NoItem
    /\ v1_q' = <<>>
    /\ UNCHANGED <<pc, result, elapsed, translation, pending, herr, got, v2_q,
                   v2_task, v2_cur, v1_out, v2_out, v1_enq, v2_enq, v1_answered>>
    /\ UNCHANGED srvVars

\* The V1 server stops, or resumes, draining its socket while a write is pending
V1PeerStall ==
    /\ v1_task \in {"send", "blocked"}
    /\ v1_task' = IF v1_task = "send" THEN "blocked" ELSE "send"
    /\ UNCHANGED <<pc, result, elapsed, translation, pending, herr, got, v1_q, v2_q,
                   v2_task, v1_cur, v2_cur, v1_out, v2_out, v1_enq, v2_enq, v1_answered>>
    /\ UNCHANGED srvVars

\* v2_send_task: translation_receiver.next(); None goes to v2_try_send_frame,
\* which answers Err("No more frames"), and the task returns
V2TaskRecv ==
    /\ v2_task = "recv"
    /\ \/ /\ v2_q # <<>>
          /\ v2_cur' = ItemFrame(QueueTake(v2_q).frame)
          /\ v2_q' = QueueTake(v2_q).rest
          /\ v2_task' = "send"
       \/ /\ QueueEnded(v2_q)
          /\ v2_task' = "done"
          /\ UNCHANGED <<v2_cur, v2_q>>
    /\ UNCHANGED <<pc, result, elapsed, translation, pending, herr, got, v1_q,
                   v1_task, v1_cur, v1_out, v2_out, v1_enq, v2_enq, v1_answered>>
    /\ UNCHANGED srvVars

\* v2_try_send_frame: connection.send(frame).await returned Ok
V2TaskWrite ==
    /\ v2_task = "send"
    /\ v2_out' = Append(v2_out, v2_cur.f)
    /\ v2_cur' = NoItem
    /\ v2_task' = "recv"
    /\ UNCHANGED <<pc, result, elapsed, translation, pending, herr, got, v1_q,
                   v2_q, v1_task, v1_cur, v1_out, v1_enq, v2_enq, v1_answered>>
    /\ UNCHANGED srvVars

\* v2_try_send_frame: connection.send(frame).await returned Err, `?` in
\* v2_send_task returns it
V2TaskWriteFail ==
    /\ v2_task \in {"send", "blocked"}
    /\ v2_task' = "failed"
    /\ v2_cur' = NoItem
    /\ v2_q' = <<>>
    /\ UNCHANGED <<pc, result, elapsed, translation, pending, herr, got, v1_q,
                   v1_task, v1_cur, v1_out, v2_out, v1_enq, v2_enq, v1_answered>>
    /\ UNCHANGED srvVars

\* The V2 client stops, or resumes, draining its socket while a write is pending
V2PeerStall ==
    /\ v2_task \in {"send", "blocked"}
    /\ v2_task' = IF v2_task = "send" THEN "blocked" ELSE "send"
    /\ UNCHANGED <<pc, result, elapsed, translation, pending, herr, got, v1_q, v2_q,
                   v1_task, v1_cur, v2_cur, v1_out, v2_out, v1_enq, v2_enq, v1_answered>>
    /\ UNCHANGED srvVars

(***************************************************************************)
(* The listener: initial state (ProxyServer::listen)                       *)
(***************************************************************************)
\* Option<T>: None, Some(x)
None == <<>>
Some(x) == <<x>>

\* the certificate / secret key pair a server may be created with
KeyPairs == {[certificate |-> "certA", secret_key |-> "keyA"]}

\* certificate.build_noise_message().serialize_to_bytes_mut()?.freeze() and
\* certificate.public_key.into_inner()
build_noise_message == [certA |-> "sigA"]
public_key == [certA |-> "pubA"]

\* SecurityContext::from_certificate_and_secret_key
from_certificate_and_secret_key(certificate, secret_key) ==
    [signature_noise_message |-> build_noise_message[certificate],
     static_key_pair |-> [private |-> secret_key, public |-> public_key[certificate]]]

\* listen: Some(pair) gives Some(context), None gives None
SecurityContexts ==
    {None} \cup {Some(from_certificate_and_secret_key(p.certificate, p.secret_key)) :
                    p \in KeyPairs}

\* ProxyConfig and the security context made of the optional certificate /
\* secret key pair
Configs ==
    [accept_proxy_protocol : BOOLEAN, proxy_protocol_optional : BOOLEAN,
     pass_proxy_protocol : BOOLEAN, security_context : SecurityContexts]

\* impl Default for ProxyConfig, and no key pair
DefaultConfig ==
    [accept_proxy_protocol |-> FALSE, proxy_protocol_optional |-> FALSE,
     pass_proxy_protocol |-> FALSE, security_context |-> None]

listen(config) ==
    /\ cfg = config
    /\ srv_pc = "next"
    /\ srv_exit = "none"
    /\ quit_rx = TRUE
    /\ quit_q = 0
    /\ incoming = <<>>
    /\ sock_closed = FALSE
    /\ sessions = <<>>
    /\ results = <<>>

(***************************************************************************)
(* The outside of the listener                                             *)
(***************************************************************************)
\* a connection, or a failed one, becomes ready on the listening socket
Connect ==
    /\ srv_pc = "next"
    /\ ~sock_closed
    /\ Len(results) + Len(incoming) < MaxConns
    /\ \E res \in {"ok", "accept_err", "no_peer_addr"} :
          incoming' = Append(incoming, [res |-> res, after_quit |-> quit_q > 0])
    /\ UNCHANGED <<cfg, srv_pc, srv_exit, quit_rx, quit_q, sock_closed, sessions, results>>
    /\ UNCHANGED sessVars

\* the stream of incoming connections ends
SocketClosed ==
    /\ srv_pc = "next"
    /\ ~sock_closed
    /\ sock_closed' = TRUE
    /\ UNCHANGED <<cfg, srv_pc, srv_exit, quit_rx, quit_q, incoming, sessions, results>>
    /\ UNCHANGED sessVars

\* quit_channel(): a clone of quit_tx, on which the owner sends ()
QuitSend ==
    /\ srv_pc = "next"
    /\ quit_q < MaxQuits
    /\ quit_q' = quit_q + 1
    /\ UNCHANGED <<cfg, srv_pc, srv_exit, quit_rx, incoming, sock_closed, sessions, results>>
    /\ UNCHANGED sessVars

(***************************************************************************)
(* ProxyServer::accept, next, run                                          *)
(***************************************************************************)
\* self.quit_tx lives as long as the server does, so the senders of the quit
\* channel are never all dropped while next runs
QuitSendersGone == FALSE

\* (mutant) every connection gets a context with a signature message of its own
clone_context_Rebuilt(context) ==
    IF context = None THEN None
    ELSE Some([context[1] EXCEPT !.signature_noise_message = "sigNew"])

\* self.security_context.as_ref().map(|context| context.clone()): the Arc is
\* cloned, the session shares the server's context
clone_context(context) == context

\* ProxyConnection::new(..).handle(), spawned and not yet polled. steps lists
\* the setup steps of do_handle the task has started, hs is the context its
\* handshake ran with
NewSession ==
    [stage |-> "peer_addr", result |-> "running", addrs |-> FALSE, emitted |-> FALSE,
     noise |-> FALSE, dials |-> 0, steps |-> <<>>,
     security_context |-> clone_context(cfg.security_context), hs |-> None]

\* accept: Err for a failed connection or an unknown peer address, else the
\* session is spawned
accept(conn) == IF conn.res = "ok" THEN "Ok" ELSE "Err"

\* (mutant) the select polls the quit channel first
next_select_QuitFirst ==
    IF quit_rx /\ quit_q > 0 THEN "quit"
    ELSE IF incoming # <<>> THEN "conn"
    ELSE IF sock_closed THEN "socket_closed"
    ELSE IF quit_rx /\ QuitSendersGone THEN "quit_closed"
    ELSE "pending"

\* what next finds when it is polled: the select polls the socket first
next_select ==
    IF incoming # <<>> THEN "conn"
    ELSE IF sock_closed THEN "socket_closed"
    ELSE IF quit_rx /\ quit_q > 0 THEN "quit"
    ELSE IF quit_rx /\ QuitSendersGone THEN "quit_closed"
    ELSE "pending"

\* run: the loop goes on after Some(Ok(..)) and after Some(Err(..))
run_StopsOnErr(r) == IF r = "Err" THEN "terminated" ELSE "next"

run(r) == "next"

ProxyServerNext ==
    /\ srv_pc = "next"
    /\ next_select # "pending"
    /\ CASE next_select = "conn" ->
              LET conn == Head(incoming)
                  r    == accept(conn)
              IN  /\ incoming' = Tail(incoming)
                  /\ sessions' = IF r = "Ok" THEN Append(sessions, NewSession)
                                 ELSE sessions
                  /\ results' = Append(results, r)
                  /\ srv_pc' = run(r)
                  /\ UNCHANGED <<srv_exit, quit_rx, quit_q>>
         [] next_select = "socket_closed" ->
              /\ srv_pc' = "terminated"
              /\ srv_exit' = "socket_closed"
              /\ UNCHANGED <<quit_rx, quit_q, incoming, sessions, results>>
         [] next_select = "quit" ->
              /\ srv_pc' = "terminated"
              /\ srv_exit' = "quit"
              /\ quit_q' = quit_q - 1
              /\ incoming' = <<>>
              /\ UNCHANGED <<quit_rx, sessions, results>>
         [] next_select = "quit_closed" ->
              /\ quit_rx' = FALSE
              /\ UNCHANGED <<srv_pc, srv_exit, quit_q, incoming, sessions, results>>
    /\ UNCHANGED <<cfg, sock_closed>>
    /\ UNCHANGED sessVars

(***************************************************************************)
(* A session task: ProxyConnection::handle and do_handle                   *)
(***************************************************************************)
AtStage(i, stage) == i \in DOMAIN sessions /\ sessions[i].stage = stage

SessionUpdate(i, s) ==
    /\ sessions' = [sessions EXCEPT ![i] = s]
    /\ UNCHANGED <<cfg, srv_pc, srv_exit, quit_rx, quit_q, incoming, sock_closed, results>>
    /\ UNCHANGED sessVars

\* `?` in do_handle: the task ends with the error, whatever it holds is dropped
Closed(s, res) == [s EXCEPT !.stage = "closed", !.result = res]

\* do_handle starts its next setup step
Enter(s, stage) == [s EXCEPT !.stage = stage, !.steps = Append(@, stage)]

\* (mutant) the handler is started without a handshake
AfterPass_NoHandshake(s, peer_ok) ==
    IF ~peer_ok THEN Closed(s, "IoError") ELSE Enter(s, "handler")

\* v1_conn.peer_addr()?, then the handshake if a security context is there
\* and the connection handler (on a cleartext framing) otherwise
AfterPass(s, peer_ok) ==
    IF ~peer_ok THEN Closed(s, "IoError")
    ELSE Enter(s, IF s.security_context # None THEN "noise" ELSE "handler")

\* (mutant) the header is written whenever passing is configured
AfterDial_AlwaysPass(s, peer_ok) ==
    IF cfg.pass_proxy_protocol THEN Enter(s, "proxy_pass")
    ELSE AfterPass(s, peer_ok)

\* pass_proxy_protocol: connect_to when both original addresses are known,
\* a warning and nothing else when they are not
AfterDial(s, peer_ok) ==
    IF cfg.pass_proxy_protocol /\ s.addrs THEN Enter(s, "proxy_pass")
    ELSE AfterPass(s, peer_ok)

\* (mutant) the handshake comes first, the upstream is dialed after it
FirstStep_HandshakeFirst(s) ==
    IF s.security_context # None THEN Enter(s, "noise") ELSE Enter(s, "dial")

\* do_handle up to its first await: the PROXY acceptor if configured, else the
\* plain TcpStream, and then the dial of the upstream
FirstStep(s) ==
    IF cfg.accept_proxy_protocol THEN Enter(s, "proxy_accept") ELSE Enter(s, "dial")

\* handle: the peer address of the downstream, then do_handle
HandlePeerAddr ==
    \E i \in DOMAIN sessions, ok \in BOOLEAN :
        /\ AtStage(i, "peer_addr")
        /\ SessionUpdate(i,
              IF ~ok THEN Closed(sessions[i], "NoPeerAddr")
              ELSE FirstStep(sessions[i]))

\* acceptor.accept: the header is required unless proxy_protocol_optional
ProxyAccept ==
    \E i \in DOMAIN sessions, hdr \in {"addrs", "no_addrs", "absent", "malformed"} :
        /\ AtStage(i, "proxy_accept")
        /\ SessionUpdate(i,
              IF hdr = "malformed" \/ (hdr = "absent" /\ ~cfg.proxy_protocol_optional)
              THEN Closed(sessions[i], "ProxyError")
              ELSE Enter([sessions[i] EXCEPT !.addrs = (hdr = "addrs")], "dial"))

\* (mutant) a failed dial is tried again
DialFailed_Retry(s) == s

\* v1_client.next().await?: the error of the one attempt ends the session
DialFailed(s) == Closed(s, "DialError")

\* incoming.original_peer_addr() and original_destination_addr(), asked for
\* when the header is to be passed: what the PROXY header gave, and for a
\* plain TcpStream what WithProxyInfo of TcpStream gives
OriginalAddrs(s, tcp_addrs) ==
    IF cfg.pass_proxy_protocol /\ ~cfg.accept_proxy_protocol
    THEN [s EXCEPT !.addrs = tcp_addrs]
    ELSE s

\* v1_client.next(): one attempt
Dial ==
    \E i \in DOMAIN sessions, ok \in BOOLEAN, peer_ok \in BOOLEAN, tcp_addrs \in BOOLEAN :
        /\ AtStage(i, "dial")
        /\ SessionUpdate(i,
              IF ~ok THEN DialFailed([sessions[i] EXCEPT !.dials = @ + 1])
              ELSE AfterDial(OriginalAddrs([sessions[i] EXCEPT !.dials = @ + 1],
                                           tcp_addrs), peer_ok))

\* connect_to writes the PROXY header to the upstream
ProxyPass ==
    \E i \in DOMAIN sessions, ok \in BOOLEAN, peer_ok \in BOOLEAN :
        /\ AtStage(i, "proxy_pass")
        /\ SessionUpdate(i,
              IF ~ok THEN Closed(sessions[i], "ProxyError")
              ELSE AfterPass([sessions[i] EXCEPT !.emitted = TRUE], peer_ok))

\* (mutant) a failed handshake falls back to the cleartext framing
HandshakeFailed_Cleartext(s) == Enter(s, "handler")

\* responder.accept_*_with_codec(..).await?: the error ends the session
HandshakeFailed(s) == Closed(s, "NoiseError")

\* the Noise responder handshake
NoiseHandshake ==
    \E i \in DOMAIN sessions, ok \in BOOLEAN :
        /\ AtStage(i, "noise")
        /\ SessionUpdate(i,
              IF ~ok THEN HandshakeFailed(sessions[i])
              ELSE Enter([sessions[i] EXCEPT !.noise = TRUE,
                                             !.hs = sessions[i].security_context],
                         "handler"))

\* what the connection handler can return
HandlerResults == {"Ok", "TranslationError", "Timeout"}

\* (self.get_connection_handler)(..).await returns
ConnectionHandler ==
    \E i \in DOMAIN sessions, res \in HandlerResults :
        /\ AtStage(i, "handler")
        /\ SessionUpdate(i, Closed(sessions[i], res))

(***************************************************************************)
(* Specification of one session                                            *)
(***************************************************************************)
Init == SessInit /\ listen(DefaultConfig)

Next ==
    \/ Tick
    \/ RunSelectV1
    \/ RunSelectV2
    \/ RunV1Arm
    \/ RunV2Arm
    \/ TranslatorSend
    \/ HandlerReturn
    \/ V1TaskRecv
    \/ V1TaskWrite
    \/ V1TaskWriteFail
    \/ V1PeerStall
    \/ V2TaskRecv
    \/ V2TaskWrite
    \/ V2TaskWriteFail
    \/ V2PeerStall

Spec == Init /\ [][Next]_vars

\* The executor runs every task that is ready and time passes; a write that
\* the socket accepts again and again completes. The peers owe nothing: they
\* may stay silent, stop draining their socket, or break it
FairSpec ==
    /\ Spec
    /\ WF_vars(Tick)
    /\ WF_vars(RunSelectV1 \/ RunSelectV2)
    /\ WF_vars(RunV1Arm)
    /\ WF_vars(RunV2Arm)
    /\ WF_vars(TranslatorSend)
    /\ WF_vars(HandlerReturn)
    /\ WF_vars(V1TaskRecv)
    /\ SF_vars(V1TaskWrite)
    /\ WF_vars(V2TaskRecv)
    /\ SF_vars(V2TaskWrite)

(***************************************************************************)
(* Specification of the listener and the sessions it spawns                *)
(***************************************************************************)
ServerInit == SessInit /\ \E config \in Configs : listen(config)

ServerNext ==
    \/ Connect
    \/ SocketClosed
    \/ QuitSend
    \/ ProxyServerNext
    \/ HandlePeerAddr
    \/ ProxyAccept
    \/ Dial
    \/ ProxyPass
    \/ NoiseHandshake
    \/ ConnectionHandler

ServerSpec == ServerInit /\ [][ServerNext]_vars

(***************************************************************************)
(* Conversion of catalog messages to frames, on its own: any message of    *)
(* the catalog is converted and the frame is put on the V2 queue           *)
(***************************************************************************)
ConvChannelIds == {0, 1}

Convert ==
    /\ Len(v2_enq) < MaxConv
    /\ \E msg \in Catalog, channel_id \in ConvChannelIds :
          LET frame == V2Frame(msg, 0, channel_id) IN
          /\ v2_q' = Append(v2_q, frame)
          /\ v2_enq' = Append(v2_enq, frame)
    /\ UNCHANGED <<pc, result, elapsed, translation, pending, herr, got, v1_q,
                   v1_task, v2_task, v1_cur, v2_cur, v1_out, v2_out, v1_enq, v1_answered>>
    /\ UNCHANGED srvVars

MessagesNext == Convert

MessagesSpec == Init /\ [][MessagesNext]_vars

(***************************************************************************)
(* The translator on its own: every frame either peer can send is handed   *)
(* to its handler, the frames the handler sends are appended to the        *)
(* histories of the two queues, and an error of the handler ends the run   *)
(***************************************************************************)
\* number of shares the V2 client has submitted: each was forwarded or refused
SubmitsTaken ==
    Cardinality({i \in 1..Len(v1_enq) : v1_enq[i].method = "mining.submit"})
    + Cardinality({i \in 1..Len(v2_enq) :
                      /\ v2_enq[i].msg = "SubmitSharesError"
                      /\ v2_enq[i].code \in {"stale-share", "invalid-channel-id"}})

\* the smaller of two numbers
Min(a, b) == IF a <= b THEN a ELSE b

\* the channels and the jobs a share may name: those the translator has
\* allocated so far and the one it would allocate next
ChannelsNamed == 1..Min(translation.next_channel_id, MaxChannels)
JobsNamed == 1..Min(translation.next_job_id, MaxJobs)

\* the hashes a mining.notify may carry: the one announced last or a new one
PrevHashes == {translation.prev_hash, translation.prev_hash + 1} \ {0}

\* The V2 client sends SetupConnection first, then its requests (it numbers the
\* channel requests 7, 8, .. and the shares 1, 2, ..), and at any time a
\* message the translator does not expect
TranslatorClientFrames ==
    (IF v1_enq = <<>> THEN {V2Frame("SetupConnection", 0, 0)} ELSE {})
    \cup (IF v2_enq # <<>> /\ OpensTaken < MaxChannels
          THEN {V2Frame("OpenStandardMiningChannel", 7 + OpensTaken, 0)} ELSE {})
    \cup (IF v2_enq # <<>> /\ SubmitsTaken < MaxSubmits
          THEN {SubmitSharesStandard(c, SubmitsTaken + 1, j) :
                    c \in ChannelsNamed, j \in JobsNamed}
          ELSE {})
    \cup {V2Frame("UpdateChannel", 0, 1)}

\* The V1 server answers the requests it has not answered yet, those for
\* mining.submit in any order, and announces jobs at any time
TranslatorServerFrames ==
    (IF translation.state = "AwaitV1Subscribe"
     THEN {V1Response("subscribe_result", TRUE)} ELSE {})
    \cup (IF translation.opens # <<>>
          THEN {V1Response("authorize_result", TRUE), V1Response("authorize_result", FALSE)}
          ELSE {})
    \cup (IF translation.next_job_id <= MaxJobs
          THEN {V1Notify(p, clean) : p \in PrevHashes, clean \in BOOLEAN} ELSE {})
    \cup {V1SubmitResult(id, ok) : id \in {i \in 1..MaxSubmits : AwaitsResult(translation, i)},
                                   ok \in BOOLEAN}

\* the frames of a handler's result that go to queue q, in order
OutFrames(out, q) ==
    LET sel == SelectSeq(out, LAMBDA o : o.q = q)
    IN [k \in DOMAIN sel |-> sel[k].f]

\* the peers send frames while the histories are within the bound
TranslatorWithinBounds == Len(v1_enq) + Len(v2_enq) < MaxTranslated

\* a handler ran on frame f with result r
Handled(f, r) ==
    /\ pc = "select"
    /\ TranslatorWithinBounds
    /\ got' = ItemFrame(f)
    /\ translation' = r.t
    /\ v1_enq' = v1_enq \o OutFrames(r.out, "v1")
    /\ v2_enq' = v2_enq \o OutFrames(r.out, "v2")
    /\ IF r.err THEN pc' = "done" /\ result' = "TranslationError"
       ELSE UNCHANGED <<pc, result>>
    /\ UNCHANGED <<elapsed, pending, herr, v1_q, v2_q, v1_task, v2_task, v1_cur,
                   v2_cur, v1_out, v2_out, v1_answered>>
    /\ UNCHANGED srvVars

TranslateV2 == \E f \in TranslatorClientFrames : Handled(f, handle_v2(translation, f))

TranslateV1 == \E r \in TranslatorServerFrames : Handled(r, handle_v1(translation, r))

TranslatorNext ==
    \/ TranslateV2
    \/ TranslateV1

TranslatorSpec == Init /\ [][TranslatorNext]_vars

(***************************************************************************)
(* Properties of one session                                               *)
(***************************************************************************)
IsPrefix(a, b) == Len(a) <= Len(b) /\ SubSeq(b, 1, Len(a)) = a

\* the frame a send subtask holds, as a sequence
InFlight(cur) == IF cur.t = "frame" THEN <<cur.f>> ELSE <<>>

TaskEnded(task) == task \in {"done", "failed"}

\* the handler is suspended in a send on the full queue q
SuspendedOn(q) ==
    /\ InHandler
    /\ pending # <<>>
    /\ Head(pending).q = q
    /\ ~CanSend(IF q = "v1" THEN v1_q ELSE v2_q)
    /\ ~ReceiverGone(IF q = "v1" THEN v1_task ELSE v2_task)

Suspended == SuspendedOn("v1") \/ SuspendedOn("v2")

\* C1: when the arm taken by select! finds its 60-second deadline elapsed, run
\* returns the timeout error, and once it has, the main loop takes no further
\* step: no frame of either side reaches the translator.
C1_TimeoutAbortsSession ==
    [][ /\ (pc \in {"v1_arm", "v2_arm"} /\ got = ItemElapsed /\ pc' # pc)
            => (pc' = "done" /\ result' = "Timeout")
        /\ result = "Timeout"
            => (pc' = "done" /\ result' = "Timeout" /\ UNCHANGED <<translation, pending, got>>)
      ]_vars

C1_Witness == pc = "done" /\ result = "Timeout" /\ got = ItemElapsed

\* C2: the step of the V2 arm on a frame of another extension than the base
\* one starts no handler, changes neither the translator nor a queue, returns
\* no error, and leaves the loop at its next iteration.
C2_NonBaseFrameDropped ==
    [][ (pc = "v2_arm" /\ got.t = "frame" /\ got.f.ext # BASE /\ pc' # pc)
            => /\ pc' = "select"
               /\ result' = "none"
               /\ pending' = <<>>
               /\ UNCHANGED <<translation, v1_q, v2_q, v1_enq, v2_enq>>
      ]_vars

C2_Witness ==
    /\ pc = "select"
    /\ result = "none"
    /\ got = ItemFrame(ExtFrame)
    /\ translation.state = "Operational"

\* C3 (as claimed): once a send subtask has ended on a write failure, the
\* session ends.
C3_SendFailureEndsSession ==
    (v1_task = "failed" \/ v2_task = "failed") ~> (pc = "done")

\* C6: what a socket has been sent is, frame for frame, the beginning of what
\* the translator enqueued for it, and while the subtask lives nothing is
\* lost either: enqueued = written, then the frame in flight, then the queue.
C6_OrderPreserved ==
    /\ IsPrefix(v1_out, v1_enq)
    /\ IsPrefix(v2_out, v2_enq)
    /\ ~TaskEnded(v1_task) => v1_enq = v1_out \o InFlight(v1_cur) \o v1_q
    /\ ~TaskEnded(v2_task) => v2_enq = v2_out \o InFlight(v2_cur) \o v2_q

C6_Witness ==
    /\ Len(v1_out) >= 2
    /\ Len(v2_out) >= 3
    /\ v2_out[2] # v2_out[3]
    /\ v2_q # <<>>

\* C7: while the handler is suspended on a full queue the main loop makes no
\* step (it polls neither read half), and the suspension ends only by the
\* queue getting shorter: the send subtask took a frame, or ended and
\* dropped the queue.
C7_Backpressure ==
    [][ /\ Suspended => UNCHANGED <<pc, got, pending, translation, elapsed>>
        /\ (SuspendedOn("v1") /\ ~SuspendedOn("v1")') => Len(v1_q') < Len(v1_q)
        /\ (SuspendedOn("v2") /\ ~SuspendedOn("v2")') => Len(v2_q') < Len(v2_q)
      ]_vars

C7_Witness == SuspendedOn("v2") /\ v2_task = "blocked"

\* C8 (as claimed): neither outbound queue ever holds more than 10 frames.
C8_QueueAtMostTen ==
    /\ Len(v1_q) <= MAX_TRANSLATION_CHANNEL_SIZE
    /\ Len(v2_q) <= MAX_TRANSLATION_CHANNEL_SIZE

\* C9 (as claimed): after the main loop has returned, both send subtasks
\* eventually end (and with them both sockets are closed).
C9_SubtasksEventuallyStop ==
    (pc = "done") ~> (TaskEnded(v1_task) /\ TaskEnded(v2_task))

\* C10 (as claimed): when run has returned because the V1 connection was lost
\* or failed, a ChannelEndpointChanged has been emitted for every open channel.
C10_EndpointChangedOnV1Loss ==
    result \in {"V1Dropped", "V1ReadError"}
        => \A c \in translation.channels :
              \E i \in 1..Len(v2_enq) :
                  /\ v2_enq[i].msg = "ChannelEndpointChanged"
                  /\ v2_enq[i].channel_id = c

(***************************************************************************)
(* Properties of the listener                                              *)
(***************************************************************************)
SessionErrors ==
    {"NoPeerAddr", "ProxyError", "DialError", "IoError", "NoiseError",
     "TranslationError", "Timeout"}

SessionStepped(i) == i \in DOMAIN sessions /\ sessions'[i] # sessions[i]

\* C4: the listener survives every session error and every failed accept.
\* A step of a session task, whatever it ends with, changes neither the
\* listener nor any other session; when next takes a connection from the
\* socket, failed or not, it returns Some and run keeps looping; and run
\* leaves its loop only when next returned None because of a quit
\* notification or because the socket was closed.
C4_ListenerSurvives ==
    [][ /\ \A i \in DOMAIN sessions :
              SessionStepped(i) =>
                  /\ srv_pc' = srv_pc /\ srv_exit' = srv_exit /\ results' = results
                  /\ incoming' = incoming /\ quit_q' = quit_q
                  /\ \A j \in DOMAIN sessions : j # i => sessions'[j] = sessions[j]
        /\ (srv_pc = "next" /\ Len(results') > Len(results)) => srv_pc' = "next"
        /\ (srv_pc = "next" /\ srv_pc' = "terminated") =>
              srv_exit' \in {"quit", "socket_closed"}
      ]_vars

\* accepting a connection has failed, the listener has accepted a later
\* connection, the session spawned for it has ended with an error, and the
\* listener is still looping
C4_Witness ==
    /\ srv_pc = "next"
    /\ \E k, l \in DOMAIN results : k < l /\ results[k] = "Err" /\ results[l] = "Ok"
    /\ \E i \in DOMAIN sessions : sessions[i].result \in SessionErrors

\* C5: after a quit notification was sent no later connection is accepted:
\* a connection that reached the socket while a quit notification was already
\* in the quit channel is never accepted, no session is spawned for it.
C5_NoAcceptAfterQuit ==
    [][ (srv_pc = "next" /\ incoming # <<>> /\ Head(incoming).after_quit) =>
            (Len(sessions') = Len(sessions) /\ Len(results') = Len(results)) ]_vars

(***************************************************************************)
(* Properties of a session task's setup (do_handle)                        *)
(***************************************************************************)
\* the setup steps in the order do_handle lists them
StepRank ==
    [peer_addr |-> 0, proxy_accept |-> 1, dial |-> 2, proxy_pass |-> 3, noise |-> 4,
     handler |-> 5, closed |-> 6]

Steps(s) == {s.steps[k] : k \in DOMAIN s.steps}

C12_DialOnceFailClosed ==
    \A i \in DOMAIN sessions :
        LET s == sessions[i] IN
        /\ s.dials <= 1
        /\ s.stage \in {"proxy_pass", "noise", "handler"} => s.dials = 1
        /\ s.result = "DialError" =>
              /\ s.stage = "closed"
              /\ s.dials = 1
              /\ ~s.emitted
              /\ ~s.noise
              /\ Steps(s) \cap {"proxy_pass", "noise", "handler"} = {}

C12_Witness ==
    \E i \in DOMAIN sessions :
        sessions[i].result = "DialError" /\ sessions[i].stage = "closed"

\* the session is past the point where do_handle passes the PROXY header
PastPass(s) ==
    "noise" \in Steps(s) \/ "handler" \in Steps(s) \/ s.result = "IoError"

\* C13: a PROXY header is written upstream only if passing is configured and
\* both original addresses are known; a session that got past that point has
\* written it exactly in that case; and the header step can fail a session
\* only while writing the header, never because an address is unknown.
C13_ProxyPassIffAddrs ==
    \A i \in DOMAIN sessions :
        LET s == sessions[i] IN
        /\ s.emitted => (cfg.pass_proxy_protocol /\ s.addrs)
        /\ PastPass(s) => (s.emitted <=> (cfg.pass_proxy_protocol /\ s.addrs))
        /\ (s.result = "ProxyError" /\ "dial" \in Steps(s)) =>
              (cfg.pass_proxy_protocol /\ s.addrs /\ "proxy_pass" \in Steps(s))
        /\ "proxy_pass" \in Steps(s) => (cfg.pass_proxy_protocol /\ s.addrs)

\* passing is configured; one session with an unknown address went on
\* without a header, another one wrote it
C13_Witness ==
    /\ cfg.pass_proxy_protocol
    /\ \E i \in DOMAIN sessions :
          /\ ~sessions[i].addrs
          /\ sessions[i].stage \in {"noise", "handler"}
          /\ ~sessions[i].emitted
    /\ \E j \in DOMAIN sessions : sessions[j].emitted

\* C15: a session runs the Noise handshake only on a server created with a
\* key pair, and on such a server the connection handler is started only
\* after the handshake has completed; on a server without a pair no session
\* runs a handshake and the handler gets the cleartext framing. This holds
\* whether or not the incoming connection is wrapped by the PROXY acceptor.
C15_NoiseIffKeyPair ==
    \A i \in DOMAIN sessions :
        LET s == sessions[i] IN
        /\ "noise" \in Steps(s) => cfg.security_context # None
        /\ s.noise => cfg.security_context # None
        /\ "handler" \in Steps(s) =>
              /\ s.noise <=> (cfg.security_context # None)
              /\ s.noise <=> "noise" \in Steps(s)

\* on a server with a key pair, a PROXY-wrapped session and its handler
\* after the handshake
C15_Witness ==
    /\ cfg.security_context # None
    /\ \E i \in DOMAIN sessions :
          /\ sessions[i].stage = "handler"
          /\ sessions[i].noise
          /\ "proxy_accept" \in Steps(sessions[i])

\* C17: the security context of the server never changes, every session
\* holds that same context from the moment it is spawned, and every
\* handshake runs with it.
C17_ContextShared ==
    [][ /\ cfg'.security_context = cfg.security_context
        /\ \A i \in DOMAIN sessions' :
              /\ sessions'[i].security_context = cfg.security_context
              /\ sessions'[i].noise =>
                    (sessions'[i].hs = cfg.security_context /\ sessions'[i].hs # None)
      ]_vars

\* two sessions, accepted one after the other, have both done their handshake
C17_Witness ==
    \E i, j \in DOMAIN sessions :
        i < j /\ sessions[i].noise /\ sessions[j].noise /\ sessions[i].hs # None

(***************************************************************************)
(* Malformed frames (ConnTranslation::run)                                 *)
(***************************************************************************)
\* C14: a malformed frame closes the session. When the main loop acts on a
\* decode error of the V2 codec, on a V1 frame that is no RPC message, or on
\* an error the translator returned for a frame, run returns that error; once
\* run has returned no further frame is read or translated.
C14_MalformedFrameClosesSession ==
    [][/\ (pc = "v2_arm" /\ got = ItemErr /\ pc' # pc)
              => (pc' = "done" /\ result' = "V2DecodeError")
       /\ (pc = "v1_arm" /\ got.t = "frame" /\ ~got.f.rpc /\ pc' # pc)
              => (pc' = "done" /\ result' = "V1RpcError")
       /\ (InHandler /\ herr /\ pending = <<>> /\ pc' # pc)
              => (pc' = "done" /\ result' = "TranslationError")
       /\ pc = "done"
              => /\ pc' = "done"
                 /\ UNCHANGED <<result, got, translation, v1_enq, v2_enq>>]_vars

C14_Witness == pc = "done" /\ result = "V1RpcError" /\ got = ItemFrame(V1Malformed)

(***************************************************************************)
(* The channel flag of converted messages                                  *)
(***************************************************************************)
\* C16: every message of the base-extension catalog is converted to a frame
\* whose channel flag is the channel-scope column of the catalog: set for the
\* ten channel messages, clear for the eight connection-level ones.
C16_ChannelFlagMatchesCatalog ==
    \A k \in DOMAIN v2_enq :
        LET f == v2_enq[k] IN
        /\ f.ext = BASE
        /\ f.msg \in {"UpdateChannel", "UpdateChannelError", "CloseChannel",
                      "SubmitSharesStandard", "SubmitSharesSuccess", "SubmitSharesError",
                      "NewMiningJob", "NewExtendedMiningJob", "SetNewPrevHash", "SetTarget"}
              => f.is_channel_msg
        /\ f.msg \in {"SetupConnection", "SetupConnectionSuccess", "SetupConnectionError",
                      "ChannelEndpointChanged", "OpenStandardMiningChannel",
                      "OpenStandardMiningChannelSuccess", "OpenMiningChannelError",
                      "Reconnect"}
              => ~f.is_channel_msg
        /\ f.msg \in Catalog

C16_Witness ==
    /\ Len(v2_enq) = 2
    /\ v2_enq[1].msg = "Reconnect" /\ ~v2_enq[1].is_channel_msg
    /\ v2_enq[2].msg = "SetTarget" /\ v2_enq[2].is_channel_msg

(***************************************************************************)
(* Properties of the translator                                            *)
(***************************************************************************)
\* the frames a step appends to the history of the V2 queue and of the V1 queue
NewV2 == SubSeq(v2_enq', Len(v2_enq) + 1, Len(v2_enq'))
NewV1 == SubSeq(v1_enq', Len(v1_enq) + 1, Len(v1_enq'))

\* the frame a step hands to the translator is the V2 message msg / the V1
\* message of kind kind
HandledV2(msg) == got'.t = "frame" /\ "msg" \in DOMAIN got'.f /\ got'.f.msg = msg
HandledV1(kind) == got'.t = "frame" /\ "kind" \in DOMAIN got'.f /\ got'.f.kind = kind

RECURSIVE LastPrevHashJob(_, _)
LastPrevHashJob(frames, channel_id) ==
    IF frames = <<>> THEN 0
    ELSE LET f == frames[Len(frames)]
         IN IF f.msg = "SetNewPrevHash" /\ f.channel_id = channel_id
            THEN f.job_id
            ELSE LastPrevHashJob(SubSeq(frames, 1, Len(frames) - 1), channel_id)

\* the jobs of a channel that are active in the job table
ActiveJobs(t, channel_id) ==
    {e.job_id : e \in {x \in t.jobs : x.channel_id = channel_id /\ x.status = "active"}}

\* once SetNewPrevHash(channel, j) has been sent, j is the one active job of
\* the channel
OneActiveJob(t, frames) ==
    \A c \in 1..MaxChannels :
        LastPrevHashJob(frames, c) # 0 => ActiveJobs(t, c) = {LastPrevHashJob(frames, c)}

\* C19: after SetNewPrevHash(channel, j) has been sent, exactly one job of the
\* channel is active, j; a SubmitSharesStandard on the channel for any other
\* job is answered with SubmitSharesError, code stale-share, and no
\* mining.submit goes upstream for it.
C19_StaleShareRefused ==
    [][/\ OneActiveJob(translation, v2_enq)
       /\ OneActiveJob(translation', v2_enq')
       /\ HandledV2("SubmitSharesStandard")
              => LET f == got'.f
                     j == LastPrevHashJob(v2_enq, f.channel_id)
                 IN (j # 0 /\ f.job_id # j)
                        => /\ NewV2 = <<SubmitSharesError(f.channel_id, f.seq_num,
                                                          "stale-share")>>
                           /\ NewV1 = <<>>
                           /\ translation'.submits = translation.submits]_vars

C19_Witness ==
    /\ got.t = "frame" /\ "msg" \in DOMAIN got.f /\ got.f.msg = "SubmitSharesStandard"
    /\ got.f.channel_id = 1 /\ got.f.job_id = 1
    /\ LastPrevHashJob(v2_enq, 1) = 2
    /\ JobStatus(translation, 1, 1) = "invalid"
    /\ v2_enq[Len(v2_enq)] = SubmitSharesError(1, got.f.seq_num, "stale-share")

\* the SubmitSharesSuccess frames among the frames sent to the V2 client, in order
Successes(frames) == SelectSeq(frames, LAMBDA f : f.msg = "SubmitSharesSuccess")

OpenReplies(frames) ==
    LET sel == SelectSeq(frames, LAMBDA f : f.msg \in {"OpenStandardMiningChannelSuccess",
                                                      "OpenMiningChannelError"})
    IN [k \in DOMAIN sel |-> sel[k].req_id]

\* the req_ids of the channel requests received, in arrival order: the client
\* numbers them 7, 8, ..
OpensReceived == [k \in 1..OpensTaken |-> 6 + k]

\* C21: channel requests that arrive before mining.authorize resolves are
\* queued and answered in arrival order: the replies sent so far followed by
\* the requests still queued are the requests received, in the order they
\* arrived, so that each request has one reply or is queued, never both and
\* never twice.
C21_OpensAnsweredInOrder ==
    OpenReplies(v2_enq) \o translation.opens = OpensReceived

C21_Witness ==
    /\ OpensTaken = 2
    /\ got = ItemFrame(V1Response("authorize_result", TRUE))
    /\ OpenReplies(v2_enq) = <<7>>
    /\ translation.opens = <<8>>
    /\ v2_enq[Len(v2_enq)] = V2Frame("OpenStandardMiningChannelSuccess", 7, 1)

C23_DeadlinesRestart ==
    [][/\ (pc # "select" /\ pc' = "select") => elapsed' = 0
       /\ (pc = "select" /\ pc' = "v1_arm" /\ got' = ItemElapsed)
              => elapsed >= V1_UPSTREAM_TIMEOUT
       /\ (pc = "select" /\ pc' = "v2_arm" /\ got' = ItemElapsed)
              => elapsed >= V2_DOWNSTREAM_TIMEOUT
       /\ (result # "Timeout" /\ result' = "Timeout")
              => /\ got = ItemElapsed
                 /\ elapsed >= V1_UPSTREAM_TIMEOUT
                 /\ elapsed >= V2_DOWNSTREAM_TIMEOUT
       /\ elapsed' > elapsed => (pc = "select" /\ pc' = "select")]_vars

\* in an iteration after the one that handled SetupConnection the loop has
\* waited for the whole 60 seconds, the V1 server has sent nothing at all, and
\* the arm of the V2 client is taken with a frame: the session goes on
C23_Witness ==
    /\ pc = "v2_arm"
    /\ result = "none"
    /\ elapsed >= V1_UPSTREAM_TIMEOUT
    /\ got = ItemFrame(FromWire(V2Frame("UpdateChannel", 0, 1)))
    /\ v1_enq = <<V1Request("mining.subscribe")>>
    /\ v1_answered = 0
    /\ v2_enq = <<>>

\* C24: the deadlines cover the socket reads only. While the arm taken awaits
\* its handler, and so while the translator is suspended on a full outbound
\* queue whose send subtask is blocked on its socket, no deadline advances, no
\* timeout ends the session, and the session stays as it is until the queue
\* gets shorter.
C24_NoDeadlineInHandler ==
    [][/\ InHandler => (elapsed' <= elapsed /\ result' # "Timeout")
       /\ Suspended => (pc' = pc /\ result' = "none")
       /\ (result # "Timeout" /\ result' = "Timeout") => pc \in {"v1_arm", "v2_arm"}]_vars

C24_Witness ==
    /\ SuspendedOn("v2")
    /\ v2_task = "blocked"
    /\ Len(v2_q) = ChannelCapacity
    /\ result = "none"
    /\ elapsed < V2_DOWNSTREAM_TIMEOUT

(***************************************************************************)
(* How run ends                                                            *)
(***************************************************************************)
\* the errors run returns
RunErrors ==
    {"Timeout", "V1ReadError", "V2DecodeError", "V1RpcError", "TranslationError",
     "SendError", "V1Dropped", "V2Disconnected"}

\* C25: a translation session never finishes successfully. run has no result
\* while its loop runs and leaves the loop only with an error, so
\* handle_connection returns Err; the clean end of the V2 client's stream is
\* the error "V2 client disconnected".
C25_RunEndsOnlyWithError ==
    /\ pc # "done" => result = "none"
    /\ pc = "done" => result \in RunErrors
    /\ (pc = "done" /\ got = ItemEof) => result \in {"V2Disconnected", "V1Dropped"}

C25_Witness == pc = "done" /\ got = ItemEof /\ result = "V2Disconnected"

(***************************************************************************)
(* The quit channel (ProxyServer::next)                                    *)
(***************************************************************************)
\* C26: when a connection and a quit notification are both pending at a call
\* of next, the connection is accepted (a session is spawned for it when the
\* accept succeeds) and the notification stays in the quit channel; a call of
\* next that finds the notification and no connection pending returns None;
\* a notification leaves the channel only by being observed.
C26_QuitNotLost ==
    [][/\ (srv_pc = "next" /\ incoming # <<>> /\ quit_rx /\ quit_q > 0)
              => /\ srv_pc' = "next"
                 /\ quit_q' >= quit_q
                 /\ results' # results
                        => /\ results' = Append(results, accept(Head(incoming)))
                           /\ incoming' = Tail(incoming)
                           /\ Len(sessions') = Len(sessions)
                                  + (IF Head(incoming).res = "ok" THEN 1 ELSE 0)
       /\ (srv_pc = "next" /\ incoming = <<>> /\ ~sock_closed /\ quit_rx /\ quit_q > 0
           /\ srv_pc' # srv_pc)
              => (srv_pc' = "terminated" /\ srv_exit' = "quit")
       /\ quit_q' < quit_q => (srv_pc' = "terminated" /\ srv_exit' = "quit")]_vars

\* a connection that can be accepted and a quit notification are both pending
\* at a call of next, after an earlier connection was accepted
C26_Witness ==
    /\ srv_pc = "next"
    /\ quit_rx /\ quit_q > 0
    /\ incoming # <<>> /\ Head(incoming).res = "ok" /\ Head(incoming).after_quit
    /\ results = <<"Ok">>

(***************************************************************************)
(* A failed Noise handshake (do_handle)                                    *)
(***************************************************************************)
\* the position of a setup step in the steps a session has started (0: none)
StepAt(s, stage) ==
    IF \E k \in DOMAIN s.steps : s.steps[k] = stage
    THEN CHOOSE k \in DOMAIN s.steps : s.steps[k] = stage
    ELSE 0

\* C27: a session that leaves the Noise handshake either completed it and
\* starts the connection handler, or ends with the handshake's error; a
\* session ended by that error never started the connection handler, and its
\* one dial of the upstream had succeeded before the handshake began, so the
\* upstream connection is dropped with no translated frame written to it.
C27_HandshakeFailureEndsSession ==
    [][\A i \in DOMAIN sessions :
          LET s == sessions[i]
              n == sessions'[i]
          IN /\ (s.stage = "noise" /\ n # s) =>
                    \/ /\ n = [s EXCEPT !.stage = "closed", !.result = "NoiseError"]
                       /\ ~n.noise
                    \/ /\ n.stage = "handler"
                       /\ n.noise
                       /\ n.result = s.result
             /\ n.result = "NoiseError" =>
                    /\ n.stage = "closed"
                    /\ "handler" \notin Steps(n)
                    /\ n.dials = 1
                    /\ 0 < StepAt(n, "dial")
                    /\ StepAt(n, "dial") < StepAt(n, "noise")
                    /\ n.steps[Len(n.steps)] = "noise"]_vars

\* a session ended by the handshake's error after the PROXY header had been
\* written to its upstream connection
C27_Witness ==
    \E i \in DOMAIN sessions :
        /\ sessions[i].result = "NoiseError"
        /\ sessions[i].stage = "closed"
        /\ sessions[i].dials = 1
        /\ sessions[i].emitted
        /\ "handler" \notin Steps(sessions[i])

(***************************************************************************)
(* The send subtasks after run has returned                                *)
(***************************************************************************)
\* C28: the return of the main loop leaves the send subtasks, their queues
\* and the frames they hold as they are; a subtask stops only by finding its
\* queue closed and empty or by a failed write; after the return a subtask
\* still writes, and what it writes is the next frame the translator
\* enqueued; a subtask that stopped on its closed queue has written every
\* frame that was enqueued for its socket, in the order of enqueueing.
C28_SubtasksDrainAfterReturn ==
    [][/\ (pc # "done" /\ pc' = "done") =>
              UNCHANGED <<v1_task, v2_task, v1_q, v2_q, v1_cur, v2_cur, v1_out, v2_out>>
       /\ (v1_task # "done" /\ v1_task' = "done") =>
              (v1_task = "recv" /\ v1_q = <<>> /\ pc = "done")
       /\ (v2_task # "done" /\ v2_task' = "done") =>
              (v2_task = "recv" /\ v2_q = <<>> /\ pc = "done")
       /\ (v1_task # "failed" /\ v1_task' = "failed") => v1_task \in {"send", "blocked"}
       /\ (v2_task # "failed" /\ v2_task' = "failed") => v2_task \in {"send", "blocked"}
       /\ (pc = "done" /\ v1_out' # v1_out) =>
              v1_out' = Append(v1_out, v1_enq[Len(v1_out) + 1])
       /\ (pc = "done" /\ v2_out' # v2_out) =>
              v2_out' = Append(v2_out, v2_enq[Len(v2_out) + 1])
       /\ v1_task' = "done" => v1_out' = v1_enq'
       /\ v2_task' = "done" => v2_out' = v2_enq'
      ]_vars

\* run has returned; the V1 subtask has stopped on its closed queue with all
\* of several frames written, and the V2 subtask is still writing with
\* another frame waiting in its queue
C28_Witness ==
    /\ pc = "done"
    /\ v1_task = "done" /\ Len(v1_enq) >= 2 /\ v1_out = v1_enq
    /\ v2_task = "send" /\ v2_q # <<>> /\ Len(v2_out) < Len(v2_enq)

====
